---------------------------- MODULE Spec2Model ----------------------------
(***************************************************************************)
(* Concurrent execution core of the search extension:                      *)
(*   - src/src/concurrent_ctx.c : thread-pool registry, blocked-command    *)
(*     dispatcher and ConcurrentSearchCtx (close / yield / reopen).        *)
(*   - src/src/rules/async.c    : AsyncIndexQueue and its worker thread.   *)
(* Threads are "main" (the host event loop), the pool workers and "ai"     *)
(* (the indexing worker).  gil is the host lock.                           *)
(***************************************************************************)
EXTENDS Integers, Sequences, FiniteSets, TLC

\* ------------------------------------------------------------ bounds
MaxCmds == 2            \* commands dispatched in one run
MaxNow == 3             \* last reading of the monotonic clock, in ClockStepNS
MaxHandles == 4         \* key handles the host hands out in one run
MaxOpenKeys == 2        \* tracked entries of one ConcurrentSearchCtx
MaxSubmits == 3         \* AIQ_Submit calls in one run

\* ------------------------------------------------------------ constants
CONCURRENT_TIMEOUT_NS == 100000000
ClockStepNS == CONCURRENT_TIMEOUT_NS \div 2

NULL == 0
NoPool == -1

indexBatchSize == 2

Workers == {"s1", "i1"}
Specs == {"S1", "S2"}
DocKeys == {"k1", "k2"}
Attrs == {"a1", "a2"}
KeyNames == {"x", "y"}
ArgVectors == {<<"a">>}

\* ------------------------------------------------------------ state
VARIABLES
  gil,                    \* thread holding the host lock, or "none"
  threadpools_g,          \* sequence of pools: [numThreads, jobs]
  CONCURRENT_POOL_INDEX,
  CONCURRENT_POOL_SEARCH,
  cmdCtx,                 \* ConcurrentCmdCtx per command, with its life cycle
  nDispatched,            \* commands dispatched so far
  wpc,                    \* worker -> position in threadHandleCommand
  wcmd,                   \* worker -> command it runs (0: none)
  sctx,                   \* worker -> ConcurrentSearchCtx of its handler
  now,                    \* CLOCK_MONOTONIC_RAW, in ClockStepNS
  keyExists,              \* host keyspace: key name -> BOOLEAN
  nextHandle,             \* next handle RedisModule_OpenKey hands out
  hInfo,                  \* handle -> [name, flags, origin, closes]
  ct,                     \* worker -> record of its last CheckTimer call
  aqState,                \* AsyncIndexQueue.state
  aqLock,                 \* thread holding AsyncIndexQueue.lock, or "none"
  pending,                \* AsyncIndexQueue.pending: sequence of specs
  dq,                     \* spec -> its SpecDocQueue
  ispec,                  \* spec -> [queue, refs, deleted] of the IndexSpec
  ai,                     \* the indexing thread: position and locals
  main,                   \* the main thread inside AIQ_Submit / the pending count
  kstrRefs,               \* key name -> retains minus releases of its string
  ridsLive,               \* RuleIndexableDocuments allocated and not freed
  lastSubmit,             \* history: what the last AIQ_Submit call did
  lastQuery,              \* history: the last SchemaRules_GetPendingCount call
  interval,               \* AsyncIndexQueue.interval, in milliseconds
  tv,                     \* the timeval gettimeofday gave the indexing thread
  ts,                     \* the timespec it passed to pthread_cond_timedwait
  waitRv                  \* what pthread_cond_timedwait returned

poolVars == <<threadpools_g, CONCURRENT_POOL_INDEX, CONCURRENT_POOL_SEARCH>>
cmdVars == <<cmdCtx, nDispatched, wpc, wcmd>>
ctxVars == <<sctx, now, nextHandle, hInfo, ct>>
hostVars == <<keyExists>>

aiqVars == <<aqState, aqLock, pending, dq, ispec, ai, main, kstrRefs, ridsLive,
             lastSubmit, lastQuery>>

timeVars == <<interval, tv, ts, waitRv>>

vars == <<gil, poolVars, cmdVars, ctxVars, hostVars, aiqVars, timeVars>>


\* ------------------------------------------------------------ host API
\* RedisModule_OpenKey: NULL for a missing key opened for reading, otherwise the
\* next fresh handle.
RedisModule_OpenKey(name, flags, nh, kex) ==
  IF ~kex[name] /\ flags = "READ" THEN NULL ELSE nh

NoteOpened(hi, h, name, flags, origin) ==
  IF h = NULL THEN hi
  ELSE [hi EXCEPT ![h] = [name |-> name, flags |-> flags, origin |-> origin, closes |-> 0]]

RedisModule_CloseKey(hi, h) == [hi EXCEPT ![h].closes = @ + 1]

UnusedHandle == [name |-> "", flags |-> "", origin |-> "unused", closes |-> 0]

\* ------------------------------------------------------------ ConcurrentSearchCtx
NoCheck == [ret |-> -1, released |-> FALSE, firstNew |-> 0]

\* The context ConcurrentSearchCtx_Init builds: unlocked, no tracked keys, clock reset.
ConcurrentSearchCtx_Init(t) ==
  [isLocked |-> FALSE, openKeys |-> << >>, lastTime |-> t, ticker |-> 0,
   unlocked |-> FALSE,     \* history: Unlock has run and Lock has not since
   freed |-> FALSE, freedNames |-> {}, freedPriv |-> {}]

ConcurrentSearchCtx_ResetClock(ctx, t) == [ctx EXCEPT !.lastTime = t, !.ticker = 0]

\* Whether CloseKeys / Free hand entry kx's handle to RedisModule_CloseKey.
ClosesEntry_IgnoreShared(kx) == kx.key # NULL

ClosesEntry_Never(kx) == FALSE

ClosesEntry(kx) == kx.key # NULL /\ "SharedKey" \notin kx.opts

RECURSIVE CloseKeysFrom(_, _, _)
CloseKeysFrom(i, keys, hi) ==
  IF i > Len(keys) THEN hi
  ELSE CloseKeysFrom(i + 1, keys,
         IF ClosesEntry(keys[i]) THEN RedisModule_CloseKey(hi, keys[i].key) ELSE hi)

\* The handle table after ConcurrentSearch_CloseKeys; the entries keep their (now
\* closed) handles.
ConcurrentSearch_CloseKeys(ctx, hi) == CloseKeysFrom(1, ctx.openKeys, hi)

\* One iteration of the loop of ConcurrentSearchCtx_ReopenKeys on entry kx.
ReopenEntry_NoCallback(kx, h) ==
  [kx EXCEPT !.key = h, !.opts = @ \ {"SharedKey"}]

ReopenEntry(kx, h) ==
  [kx EXCEPT !.key = h, !.opts = @ \ {"SharedKey"}, !.cbCalls = @ + 1, !.cbKey = h]

RECURSIVE ReopenFrom(_, _, _, _, _)
ReopenFrom(i, keys, nh, hi, kex) ==
  IF i > Len(keys) THEN [keys |-> keys, nh |-> nh, hi |-> hi]
  ELSE LET kx == keys[i]
           h == RedisModule_OpenKey(kx.keyName, kx.keyFlags, nh, kex)
       IN ReopenFrom(i + 1, [keys EXCEPT ![i] = ReopenEntry(kx, h)],
                     IF h = NULL THEN nh ELSE nh + 1,
                     NoteOpened(hi, h, kx.keyName, kx.keyFlags, "ctx"), kex)

ConcurrentSearchCtx_ReopenKeys(ctx, nh, hi, kex) == ReopenFrom(1, ctx.openKeys, nh, hi, kex)

\* Handles a Lock of ctx may need.
HandlesLeft(ctx) == nextHandle + Len(ctx.openKeys) - 1 <= MaxHandles

ClearCalls(keys) == [i \in 1..Len(keys) |-> [keys[i] EXCEPT !.cbCalls = 0]]

\* ConcurrentSearchCtx_Lock, called by the handler running on worker w.
ConcurrentSearchCtx_Lock(w) ==
  /\ wpc[w] = "handler"
  /\ ~sctx[w].isLocked              \* assert(!ctx->isLocked)
  /\ gil = "none"                   \* RedisModule_ThreadSafeContextLock blocks
  /\ HandlesLeft(sctx[w])
  /\ LET cleared == [sctx[w] EXCEPT !.openKeys = ClearCalls(@)]
         r == ConcurrentSearchCtx_ReopenKeys(cleared, nextHandle, hInfo, keyExists)
     IN /\ sctx' = [sctx EXCEPT ![w].isLocked = TRUE, ![w].openKeys = r.keys,
                                ![w].unlocked = FALSE]
        /\ nextHandle' = r.nh
        /\ hInfo' = r.hi
  /\ gil' = w
  /\ ct' = [ct EXCEPT ![w] = NoCheck]
  /\ UNCHANGED <<timeVars, aiqVars, poolVars, cmdVars, now, hostVars>>

\* ConcurrentSearchCtx_Unlock, called by the handler while it holds the host lock.
ConcurrentSearchCtx_Unlock(w) ==
  /\ wpc[w] = "handler"
  /\ gil = w
  /\ hInfo' = ConcurrentSearch_CloseKeys(sctx[w], hInfo)
  /\ gil' = "none"
  /\ sctx' = [sctx EXCEPT ![w].isLocked = FALSE, ![w].unlocked = TRUE]
  /\ ct' = [ct EXCEPT ![w] = NoCheck]
  /\ UNCHANGED <<timeVars, aiqVars, poolVars, cmdVars, now, nextHandle, hostVars>>

\* ConcurrentSearch_CheckTimer up to its return 0 or to the release of the host
\* lock: t is the clock reading.
ConcurrentSearch_CheckTimer(w) ==
  /\ wpc[w] = "handler"
  /\ gil = w
  /\ \E t \in now..MaxNow :
       LET durationNS == (t - sctx[w].lastTime) * ClockStepNS
       IN /\ now' = t
          /\ IF durationNS > CONCURRENT_TIMEOUT_NS
             THEN /\ HandlesLeft(sctx[w])
                  /\ hInfo' = ConcurrentSearch_CloseKeys(sctx[w], hInfo)
                  /\ gil' = "none"
                  /\ sctx' = [sctx EXCEPT ![w].isLocked = FALSE,
                                          ![w].unlocked = TRUE,
                                          ![w].openKeys = ClearCalls(@)]
                  /\ ct' = [ct EXCEPT ![w] = [ret |-> -1, released |-> TRUE,
                                              firstNew |-> nextHandle]]
                  /\ wpc' = [wpc EXCEPT ![w] = "relock"]
             ELSE /\ sctx' = [sctx EXCEPT ![w].openKeys = ClearCalls(@)]
                  /\ ct' = [ct EXCEPT ![w] = [ret |-> 0, released |-> FALSE,
                                              firstNew |-> nextHandle]]
                  /\ UNCHANGED <<gil, hInfo, wpc>>
  /\ UNCHANGED <<timeVars, aiqVars, poolVars, cmdCtx, nDispatched, wcmd, nextHandle, hostVars>>

\* The rest of ConcurrentSearch_CheckTimer: Lock, ResetClock, return 1.
CheckTimer_Relock(w) ==
  /\ wpc[w] = "relock"
  /\ gil = "none"
  /\ LET r == ConcurrentSearchCtx_ReopenKeys(sctx[w], nextHandle, hInfo, keyExists)
         locked == [sctx[w] EXCEPT !.isLocked = TRUE, !.openKeys = r.keys,
                                   !.unlocked = FALSE]
     IN /\ sctx' = [sctx EXCEPT ![w] = ConcurrentSearchCtx_ResetClock(locked, now)]
        /\ nextHandle' = r.nh
        /\ hInfo' = r.hi
  /\ gil' = w
  /\ ct' = [ct EXCEPT ![w].ret = 1]
  /\ wpc' = [wpc EXCEPT ![w] = "handler"]
  /\ UNCHANGED <<timeVars, aiqVars, poolVars, cmdCtx, nDispatched, wcmd, now, hostVars>>

\* What the handler passes to ConcurrentSearch_AddKey besides the handle.
AddKeyArgs ==
  { [keyName |-> "x", keyFlags |-> "READ", opts |-> {}, freePrivData |-> TRUE],
    [keyName |-> "y", keyFlags |-> "WRITE", opts |-> {}, freePrivData |-> FALSE],
    [keyName |-> "x", keyFlags |-> "READ", opts |-> {"SharedKey", "SharedKeyString"},
     freePrivData |-> FALSE] }

\* ConcurrentSearch_AddKey: the handler tracks a handle it has just opened for
\* a.keyName, or one it borrowed from its owner (SharedKey).
ConcurrentSearch_AddKey(w, a) ==
  /\ wpc[w] = "handler"
  /\ gil = w
  /\ Len(sctx[w].openKeys) < MaxOpenKeys
  /\ nextHandle <= MaxHandles
  /\ LET h == RedisModule_OpenKey(a.keyName, a.keyFlags, nextHandle, keyExists)
         origin == IF "SharedKey" \in a.opts THEN "borrowed" ELSE "caller"
         kx == [key |-> h, keyName |-> a.keyName, keyFlags |-> a.keyFlags,
                opts |-> a.opts, freePrivData |-> a.freePrivData,
                cbCalls |-> 0, cbKey |-> NULL]
     IN /\ sctx' = [sctx EXCEPT ![w].openKeys = Append(@, kx)]
        /\ nextHandle' = IF h = NULL THEN nextHandle ELSE nextHandle + 1
        /\ hInfo' = NoteOpened(hInfo, h, a.keyName, a.keyFlags, origin)
  /\ ct' = [ct EXCEPT ![w] = NoCheck]
  /\ UNCHANGED <<timeVars, aiqVars, gil, poolVars, cmdVars, now, hostVars>>

RECURSIVE FreeKeysFrom(_, _, _)
FreeKeysFrom(i, ctx, hi) ==
  IF i > Len(ctx.openKeys) THEN hi
  ELSE FreeKeysFrom(i + 1, ctx,
         IF ctx.isLocked /\ ClosesEntry(ctx.openKeys[i])
         THEN RedisModule_CloseKey(hi, ctx.openKeys[i].key) ELSE hi)

\* ConcurrentSearchCtx_Free: the handler tears its context down.
ConcurrentSearchCtx_Free(w) ==
  /\ wpc[w] = "handler"
  /\ sctx[w].isLocked => gil = w
  /\ hInfo' = FreeKeysFrom(1, sctx[w], hInfo)
  /\ LET keys == sctx[w].openKeys
     IN sctx' = [sctx EXCEPT
          ![w].freed = TRUE,
          ![w].freedNames = {i \in 1..Len(keys) : "SharedKeyString" \notin keys[i].opts},
          ![w].freedPriv = {i \in 1..Len(keys) : keys[i].freePrivData}]
  /\ ct' = [ct EXCEPT ![w] = NoCheck]
  /\ wpc' = [wpc EXCEPT ![w] = "hdone"]
  /\ UNCHANGED <<timeVars, aiqVars, gil, poolVars, cmdCtx, nDispatched, wcmd, now, nextHandle, hostVars>>

\* ------------------------------------------------------------ the event loop
\* The main thread takes the host lock to serve a command and gives it back.
\* A command the event loop serves under the host lock creates or deletes key k.
KeyspaceChange(k) ==
  /\ gil = "none"
  /\ keyExists' = [keyExists EXCEPT ![k] = ~@]
  /\ UNCHANGED <<timeVars, aiqVars, gil, poolVars, cmdVars, ctxVars>>


\* ------------------------------------------------------------ thread pools
\* The pool worker w serves, by the order ConcurrentSearch_ThreadPoolStart creates
\* them in.
PoolOf(w) == IF w = "i1" THEN CONCURRENT_POOL_INDEX ELSE CONCURRENT_POOL_SEARCH

\* ConcurrentSearch_CreatePool: the pools with one more, whose id is the old length.
ConcurrentSearch_CreatePool(pools, numThreads) ==
  Append(pools, [numThreads |-> numThreads, jobs |-> << >>])

ConcurrentSearch_ThreadPoolStart ==
  /\ gil = "none"                   \* module load runs under the host lock
  /\ IF CONCURRENT_POOL_SEARCH = NoPool
     THEN LET searchId == Len(threadpools_g)
              withSearch == ConcurrentSearch_CreatePool(threadpools_g,
                              Cardinality({w \in Workers : w # "i1"}))
              indexId == Len(withSearch)
          IN /\ CONCURRENT_POOL_SEARCH' = searchId
             /\ CONCURRENT_POOL_INDEX' = indexId
             /\ threadpools_g' = ConcurrentSearch_CreatePool(withSearch,
                                   Cardinality({w \in Workers : w = "i1"}))
     ELSE UNCHANGED poolVars
  /\ UNCHANGED <<timeVars, aiqVars, gil, cmdVars, ctxVars, hostVars>>

\* The identifiers ConcurrentSearch_CreatePool has returned.
PoolIds(pools) == 0..(Len(pools) - 1)

\* ConcurrentSearch_ThreadPoolRun: thpool_add_work appends to the pool's FIFO.  The
\* result is the set of registries the call can leave.  There is no test of type:
\* for an identifier out of range threadpools_g[type] is read beyond the array (or
\* through a null pointer), and thpool_add_work is given whatever is found there;
\* the item is lost, or lands on one of the pools.
ConcurrentSearch_ThreadPoolRun(pools, c, type) ==
  IF type \in PoolIds(pools)
  THEN {[pools EXCEPT ![type + 1].jobs = Append(@, c)]}
  ELSE {pools} \cup {[pools EXCEPT ![q].jobs = Append(@, c)] : q \in 1..Len(pools)}

\* ------------------------------------------------------------ dispatcher
CmdOptions == SUBSET {"NO_GIL", "KEEP_RCTX"}

NoCmd ==
  [state |-> "none", options |-> {}, argv |-> << >>, pool |-> NoPool,
   rctx |-> "none", handlerCalls |-> 0, handlerReturns |-> 0, unblocks |-> 0,
   gilLocks |-> 0, gilUnlocks |-> 0]     \* history: calls made by threadHandleCommand

\* ConcurrentSearch_HandleRedisCommandEx, called by a command the event loop serves
\* under the host lock and returns from at once.
ConcurrentSearch_HandleRedisCommandEx(poolType, options, argv) ==
  /\ gil = "none"
  /\ nDispatched < MaxCmds
  /\ LET c == nDispatched + 1
     IN /\ cmdCtx' = [cmdCtx EXCEPT ![c] =
                        [NoCmd EXCEPT !.state = "queued", !.options = options,
                                      !.argv = argv, !.pool = poolType,
                                      !.rctx = "live"]]
        /\ threadpools_g' \in ConcurrentSearch_ThreadPoolRun(threadpools_g, c, poolType)
        /\ nDispatched' = c
  /\ UNCHANGED <<timeVars, aiqVars, gil, CONCURRENT_POOL_INDEX, CONCURRENT_POOL_SEARCH, wpc, wcmd,
                 ctxVars, hostVars>>

\* A thread of the pool takes the job at the head of its pool's queue.
thpool_take(w) ==
  /\ wpc[w] = "idle"
  /\ PoolOf(w) # NoPool
  /\ threadpools_g[PoolOf(w) + 1].jobs # << >>
  /\ wcmd' = [wcmd EXCEPT ![w] = Head(threadpools_g[PoolOf(w) + 1].jobs)]
  /\ threadpools_g' = [threadpools_g EXCEPT ![PoolOf(w) + 1].jobs = Tail(@)]
  /\ wpc' = [wpc EXCEPT ![w] = "start"]
  /\ UNCHANGED <<timeVars, aiqVars, gil, CONCURRENT_POOL_INDEX, CONCURRENT_POOL_SEARCH, cmdCtx,
                 nDispatched, ctxVars, hostVars>>

\* Whether threadHandleCommand takes and gives back the host lock around the handler.
LocksGIL_Always(options) == TRUE

LocksGIL(options) == "NO_GIL" \notin options

\* threadHandleCommand up to the call of the handler, which starts by
\* ConcurrentSearchCtx_Init.
threadHandleCommand_Call(w) ==
  /\ wpc[w] = "start"
  /\ IF LocksGIL(cmdCtx[wcmd[w]].options)
     THEN gil = "none" /\ gil' = w
     ELSE UNCHANGED gil
  /\ cmdCtx' = [cmdCtx EXCEPT ![wcmd[w]].state = "running",
                              ![wcmd[w]].handlerCalls = @ + 1,
                              ![wcmd[w]].gilLocks =
                                 IF LocksGIL(cmdCtx[wcmd[w]].options) THEN @ + 1 ELSE @]
  /\ sctx' = [sctx EXCEPT ![w] = ConcurrentSearchCtx_Init(now)]
  /\ wpc' = [wpc EXCEPT ![w] = "handler"]
  /\ UNCHANGED <<timeVars, aiqVars, poolVars, nDispatched, wcmd, now, nextHandle, hInfo, ct, hostVars>>

\* ConcurrentCmdCtx_KeepRedisCtx, called by the handler.
ConcurrentCmdCtx_KeepRedisCtx(w) ==
  /\ wpc[w] = "handler"
  /\ "KEEP_RCTX" \notin cmdCtx[wcmd[w]].options
  /\ cmdCtx' = [cmdCtx EXCEPT ![wcmd[w]].options = @ \cup {"KEEP_RCTX"}]
  /\ UNCHANGED <<timeVars, aiqVars, gil, poolVars, nDispatched, wpc, wcmd, ctxVars, hostVars>>

\* The handler frees its context (ConcurrentSearchCtx_Free) and returns, holding the
\* host lock if and only if it was called with it.
HandlerReturn(w) ==
  /\ wpc[w] = "handler"
  /\ (gil = w) <=> LocksGIL(cmdCtx[wcmd[w]].options)
  /\ hInfo' = FreeKeysFrom(1, sctx[w], hInfo)
  /\ ct' = [ct EXCEPT ![w] = NoCheck]
  /\ cmdCtx' = [cmdCtx EXCEPT ![wcmd[w]].handlerReturns = @ + 1]
  /\ wpc' = [wpc EXCEPT ![w] = "unlock"]
  /\ sctx' = [sctx EXCEPT ![w] = ConcurrentSearchCtx_Init(0)]   \* its frame is gone
  /\ UNCHANGED <<timeVars, aiqVars, gil, poolVars, nDispatched, wcmd, now, nextHandle, hostVars>>

\* threadHandleCommand after the handler: give the host lock back if it was taken.
threadHandleCommand_Unlock(w) ==
  /\ wpc[w] = "unlock"
  /\ IF LocksGIL(cmdCtx[wcmd[w]].options)
     THEN gil' = "none"
     ELSE UNCHANGED gil
  /\ cmdCtx' = [cmdCtx EXCEPT ![wcmd[w]].gilUnlocks =
                                 IF LocksGIL(cmdCtx[wcmd[w]].options) THEN @ + 1 ELSE @]
  /\ wpc' = [wpc EXCEPT ![w] = "finish"]
  /\ UNCHANGED <<timeVars, aiqVars, poolVars, nDispatched, wcmd, ctxVars, hostVars>>

\* How many times threadHandleCommand calls RedisModule_UnblockClient, given the
\* options it finds after the handler.
UnblockCalls_OnlyIfNotKept(options) == IF "KEEP_RCTX" \in options THEN 0 ELSE 1

UnblockCalls(options) == 1

\* The end of threadHandleCommand: free the thread-safe context unless it is kept,
\* unblock the client, free the argument copies and the record.
threadHandleCommand_Finish(w) ==
  /\ wpc[w] = "finish"
  /\ cmdCtx' = [cmdCtx EXCEPT
       ![wcmd[w]].rctx = IF "KEEP_RCTX" \notin cmdCtx[wcmd[w]].options
                         THEN "freed" ELSE @,
       ![wcmd[w]].unblocks = @ + UnblockCalls(cmdCtx[wcmd[w]].options),
       ![wcmd[w]].gilLocks = 0,
       ![wcmd[w]].gilUnlocks = 0,
       ![wcmd[w]].argv = << >>,
       ![wcmd[w]].options = {},
       ![wcmd[w]].pool = NoPool,
       ![wcmd[w]].state = "freed"]
  /\ wpc' = [wpc EXCEPT ![w] = "idle"]
  /\ wcmd' = [wcmd EXCEPT ![w] = 0]
  /\ UNCHANGED <<timeVars, aiqVars, gil, poolVars, nDispatched, ctxVars, hostVars>>

\* ------------------------------------------------------------ AsyncIndexQueue
\* A dict keyed by key string is the set of its RuleIndexableDocuments, at most one
\* for a key.  A document is [kstr, iia] plus history: the attributes of the first
\* and of the latest AIQ_Submit call that named its key since the dict was empty.
dictSize(d) == Cardinality(d)

dictFind(d, k) == {r \in d : r.kstr = k}

dictKeys(d) == {r.kstr : r \in d}

\* dictAdd: DICT_ERR, and no change, when the key is already there.
dictAdd(d, rid) ==
  IF dictFind(d, rid.kstr) # {}
  THEN [rv |-> "DICT_ERR", d |-> d]
  ELSE [rv |-> "DICT_OK", d |-> d \cup {rid}]

\* History only: the entry for k remembers that a was submitted for it again.
NoteResubmitted(d, k, a) ==
  {IF r.kstr = k THEN [r EXCEPT !.last = a] ELSE r : r \in d}

\* The SpecDocQueue SpecDocQueue_Create builds for a spec.
SpecDocQueue_Create == [entries |-> {}, state |-> {}, nactive |-> 0, lock |-> "none"]

\* A mutex can be taken.
MutexFree(l) == l = "none"

\* pthread_cond_signal on AsyncIndexQueue.cond: wakes the indexing thread if it is
\* in its timed wait, and is lost otherwise.
pthread_cond_signal(a) ==
  IF a.pc = "wait" THEN [a EXCEPT !.pc = "lock", !.wake = "signal"] ELSE a

NoSubmit ==
  [spec |-> "none", dup |-> FALSE, dSize |-> 0, dRefs |-> 0, dRids |-> 0,
   owed |-> FALSE, signalled |-> FALSE]

NoQuery == [spec |-> "none", hasQueue |-> FALSE, ret |-> -2, snap |-> -2]

MainIdle == [pc |-> "idle", spec |-> "none", flags |-> {}, nqueued |-> 0, n |-> 0]

\* How many references to the key string AIQ_Submit gives back when dictAdd refuses
\* the document.
DuplicateReleases_None(rv) == 0

DuplicateReleases(rv) == IF rv # "DICT_OK" THEN 1 ELSE 0

\* Whether AIQ_Submit signals the condition after it has released the mutex.
SubmitSignals(flags, nqueued) ==
  "PROCESSING" \notin flags /\ nqueued >= indexBatchSize

\* Whether AIQ_Submit appends the spec queue to the pending list.
QueuesSpec_IgnoreProcessing(flags) == "PENDING" \notin flags

QueuesSpec(flags) == flags \cap {"PENDING", "PROCESSING"} = {}

\* The documents the commands submit.
SubmitArgs ==
  {[spec |-> "S1", key |-> "k1", iia |-> "a1"],
   [spec |-> "S1", key |-> "k1", iia |-> "a2"],
   [spec |-> "S1", key |-> "k2", iia |-> "a1"],
   [spec |-> "S2", key |-> "k1", iia |-> "a1"]}

\* AIQ_Submit up to the release of AsyncIndexQueue.lock (on the duplicate path: to
\* its return).  The caller is a command of the event loop, under the host lock.
AIQ_Submit(s, k, a) ==
  /\ main.pc = "idle"
  /\ aqState = "running"
  /\ main.n < MaxSubmits
  /\ gil = "none"
  /\ MutexFree(aqLock)
  /\ LET rid == [kstr |-> k, iia |-> a, first |-> a, last |-> a]
         q == IF ispec[s].queue THEN dq[s] ELSE SpecDocQueue_Create
         r == dictAdd(q.entries, rid)
         rel == DuplicateReleases(r.rv)
         known == dictFind(q.entries, k) # {}
     IN IF r.rv # "DICT_OK"
        THEN /\ dq' = [dq EXCEPT ![s] = [q EXCEPT !.entries = NoteResubmitted(@, k, a)]]
             /\ ispec' = [ispec EXCEPT ![s].queue = TRUE]
             /\ kstrRefs' = [kstrRefs EXCEPT ![k] = @ + 1 - rel]
             /\ ridsLive' = ridsLive          \* rm_calloc, then rm_free
             /\ lastSubmit' = [NoSubmit EXCEPT !.spec = s, !.dup = known,
                                               !.dRefs = 1 - rel]
             /\ main' = [main EXCEPT !.n = @ + 1]
             /\ UNCHANGED <<gil, pending>>
        ELSE LET flags == q.state
                 nqueued == dictSize(r.d)
                 queue == QueuesSpec(flags)
             IN /\ dq' = [dq EXCEPT ![s] =
                           [q EXCEPT !.entries = r.d,
                                     !.state = IF queue THEN @ \cup {"PENDING"} ELSE @]]
                /\ pending' = IF queue THEN Append(pending, s) ELSE pending
                /\ ispec' = [ispec EXCEPT ![s].queue = TRUE,
                                          ![s].refs = IF queue THEN @ + 1 ELSE @]
                /\ kstrRefs' = [kstrRefs EXCEPT ![k] = @ + 1 - rel]
                /\ ridsLive' = ridsLive + 1
                /\ lastSubmit' = [NoSubmit EXCEPT
                     !.spec = s, !.dup = known,
                     !.dSize = dictSize(r.d) - dictSize(q.entries),
                     !.dRefs = 1 - rel, !.dRids = 1,
                     !.owed = "PROCESSING" \notin flags /\ nqueued >= indexBatchSize]
                /\ main' = [main EXCEPT !.pc = "signal", !.spec = s, !.flags = flags,
                                        !.nqueued = nqueued, !.n = @ + 1]
                /\ gil' = "main"
  /\ lastQuery' = NoQuery
  /\ UNCHANGED <<timeVars, aqState, aqLock, ai, poolVars, cmdVars, ctxVars, hostVars>>

\* The rest of AIQ_Submit: the signal, if the batch is full, and the return.
AIQ_Submit_Signal ==
  /\ main.pc = "signal"
  /\ LET sig == SubmitSignals(main.flags, main.nqueued)
     IN /\ ai' = IF sig THEN pthread_cond_signal(ai) ELSE ai
        /\ lastSubmit' = [lastSubmit EXCEPT !.signalled = sig]
  /\ main' = [main EXCEPT !.pc = "idle", !.spec = "none", !.flags = {}, !.nqueued = 0]
  /\ gil' = "none"
  /\ UNCHANGED <<timeVars, aqState, aqLock, pending, dq, ispec, kstrRefs, ridsLive, lastQuery,
                 poolVars, cmdVars, ctxVars, hostVars>>

\* SchemaRules_GetPendingCount up to the second pthread_mutex_lock, or to its
\* return of -1.
SchemaRules_GetPendingCount(s) ==
  /\ main.pc = "idle"
  /\ aqState = "running"
  /\ IF ~ispec[s].queue
     THEN /\ lastQuery' = [spec |-> s, hasQueue |-> FALSE, ret |-> -1, snap |-> -2]
          /\ UNCHANGED <<aqLock, dq, main>>
     ELSE /\ MutexFree(aqLock)
          /\ MutexFree(dq[s].lock)
          /\ aqLock' = "main"
          /\ dq' = [dq EXCEPT ![s].lock = "main"]
          /\ main' = [main EXCEPT !.pc = "query", !.spec = s]
          /\ lastQuery' = [spec |-> s, hasQueue |-> TRUE, ret |-> -2,
                           snap |-> dq[s].nactive + dictSize(dq[s].entries)]
  /\ lastSubmit' = NoSubmit
  /\ UNCHANGED <<timeVars, gil, aqState, pending, ispec, ai, kstrRefs, ridsLive,
                 poolVars, cmdVars, ctxVars, hostVars>>

\* The read under both locks, the two unlocks and the return.
SchemaRules_GetPendingCount_Read ==
  /\ main.pc = "query"
  /\ lastQuery' = [lastQuery EXCEPT
                     !.ret = dq[main.spec].nactive + dictSize(dq[main.spec].entries)]
  /\ dq' = [dq EXCEPT ![main.spec].lock = "none"]
  /\ aqLock' = "none"
  /\ main' = [main EXCEPT !.pc = "idle", !.spec = "none"]
  /\ UNCHANGED <<timeVars, gil, aqState, pending, ispec, ai, kstrRefs, ridsLive, lastSubmit,
                 poolVars, cmdVars, ctxVars, hostVars>>

\* A command of the event loop drops the index: Index_Deleted is set under the
\* host lock.
IndexSpec_Delete(s) ==
  /\ main.pc = "idle"
  /\ gil = "none"
  /\ ~ispec[s].deleted
  /\ ispec' = [ispec EXCEPT ![s].deleted = TRUE]
  /\ UNCHANGED <<timeVars, gil, aqState, aqLock, pending, dq, ai, main, kstrRefs, ridsLive,
                 lastSubmit, lastQuery, poolVars, cmdVars, ctxVars, hostVars>>

\* AIQ_Destroy up to pthread_join.
AIQ_Destroy ==
  /\ main.pc = "idle"
  /\ aqState = "running"
  /\ aqState' = "cancelled"
  /\ ai' = pthread_cond_signal(ai)
  /\ main' = [main EXCEPT !.pc = "join"]
  /\ lastSubmit' = NoSubmit
  /\ lastQuery' = NoQuery
  /\ UNCHANGED <<timeVars, gil, aqLock, pending, dq, ispec, kstrRefs, ridsLive,
                 poolVars, cmdVars, ctxVars, hostVars>>

\* pthread_join on the indexing thread, which AIQ_Create has detached: joining a
\* detached thread is undefined, and the call either waits for the thread to exit
\* or returns at once with an error that AIQ_Destroy does not look at.
pthread_join(a) == \E waits \in BOOLEAN : waits => a.pc = "done"

\* pthread_join returns; the rest of AIQ_Destroy.
AIQ_Destroy_Join ==
  /\ main.pc = "join"
  /\ pthread_join(ai)
  /\ pending' = << >>
  /\ main' = [main EXCEPT !.pc = "destroyed"]
  /\ UNCHANGED <<timeVars, gil, aqState, aqLock, dq, ispec, ai, kstrRefs, ridsLive,
                 lastSubmit, lastQuery, poolVars, cmdVars, ctxVars, hostVars>>

\* ------------------------------------------------------------ the indexing thread
\* ms2ts: milliseconds to a timespec.
ms2ts(ms) == [tv_sec |-> ms \div 1000, tv_nsec |-> (ms % 1000) * 1000000]

\* The absolute deadline aiThreadInit makes of the time of day and the interval.
Deadline(t, base) ==
  [tv_sec |-> t.tv_sec + base.tv_sec,
   tv_nsec |-> (t.tv_usec * 1000) + base.tv_nsec]

\* pthread_cond_timedwait refuses a timespec whose tv_nsec is not in 0 .. 10^9 - 1.
pthread_cond_timedwait(abstime) ==
  IF abstime.tv_nsec < 0 \/ abstime.tv_nsec >= 1000000000 THEN "EINVAL" ELSE "ETIMEDOUT"

\* The intervals the queue is created with and the readings of the clock.
DefaultInterval == 100

Intervals == {0, 1, DefaultInterval, 500, 999, 1000, 1500}

Secs == {0, 1}

Usecs == {0, 1, 999, 1000, 499999, 500000, 999999}

\* One round of the wait loop of aiThreadInit: gettimeofday, the deadline, the
\* timed wait that runs into it.
aiThreadInit_TimedWait ==
  /\ \E sec \in Secs, usec \in Usecs :
       /\ tv' = [tv_sec |-> sec, tv_usec |-> usec]
       /\ ts' = Deadline(tv', ms2ts(interval))
       /\ waitRv' = pthread_cond_timedwait(ts')
  /\ UNCHANGED <<interval, gil, aiqVars, poolVars, cmdVars, ctxVars, hostVars>>

NoActx == [key |-> "none", iia |-> "none", first |-> "none", last |-> "none"]

AiStart ==
  [pc |-> "top", wake |-> "none", dq |-> "none", old |-> {}, left |-> {},
   cur |-> "none", newdict |-> TRUE, actx |-> NoActx, added |-> FALSE,
   maxAtPick |-> 0, delAtPick |-> FALSE, outcome |-> "none"]

Perms(list) ==
  LET n == Len(list)
  IN {[i \in 1..n |-> list[f[i]]] :
        f \in {g \in [1..n -> 1..n] : \A i, j \in 1..n : g[i] = g[j] => i = j}}

RECURSIVE MaxSize(_, _)
MaxSize(list, d) ==
  IF list = << >> THEN 0
  ELSE LET m == MaxSize(Tail(list), d)
           x == dictSize(d[Head(list)].entries)
       IN IF x > m THEN x ELSE m

\* sortPending is handed pointers to the slots of the pending array and reads them
\* as SpecDocQueues: what it compares is not the dict sizes, and any order of the
\* list can come out of qsort.
sortPending(list) == Perms(list)

\* The top of the loop of aiThreadInit: leave if cancelled.
aiThreadInit_Top ==
  /\ ai.pc = "top"
  /\ ai' = IF aqState = "cancelled"
           THEN [ai EXCEPT !.pc = "done", !.newdict = FALSE, !.actx = NoActx]
           ELSE [ai EXCEPT !.pc = "lock", !.wake = "none", !.actx = NoActx]
  /\ UNCHANGED <<timeVars, gil, aqState, aqLock, pending, dq, ispec, main, kstrRefs, ridsLive,
                 lastSubmit, lastQuery, poolVars, cmdVars, ctxVars, hostVars>>

\* Under AsyncIndexQueue.lock: wait if nothing is pending; otherwise sort, take the
\* last queue, swap its dict for the empty one and mark it PROCESSING.
aiThreadInit_Lock ==
  /\ ai.pc = "lock"
  /\ MutexFree(aqLock)
  /\ IF pending = << >>
     THEN /\ ai' = [ai EXCEPT !.pc = "wait"]
          /\ UNCHANGED <<pending, dq>>
     ELSE \E sorted \in sortPending(pending) :
            LET nq == Len(sorted)
                s == sorted[nq]
                oldEntries == dq[s].entries
            IN /\ pending' = SubSeq(sorted, 1, nq - 1)
               /\ dq' = [dq EXCEPT ![s].entries = {},
                                   ![s].nactive = dictSize(oldEntries),
                                   ![s].state = {"PROCESSING"}]
               /\ ai' = [ai EXCEPT !.pc = "iter", !.dq = s, !.old = oldEntries,
                                   !.left = oldEntries, !.wake = "none",
                                   !.newdict = FALSE,
                                   !.maxAtPick = MaxSize(pending, dq),
                                   !.delAtPick = ispec[s].deleted]
  /\ UNCHANGED <<timeVars, gil, aqState, aqLock, ispec, main, kstrRefs, ridsLive,
                 lastSubmit, lastQuery, poolVars, cmdVars, ctxVars, hostVars>>

\* pthread_cond_timedwait returns because the interval has expired.
aiThreadInit_Timeout ==
  /\ ai.pc = "wait"
  /\ ai' = [ai EXCEPT !.pc = "lock", !.wake = "timeout"]
  /\ UNCHANGED <<timeVars, gil, aqState, aqLock, pending, dq, ispec, main, kstrRefs, ridsLive,
                 lastSubmit, lastQuery, poolVars, cmdVars, ctxVars, hostVars>>

\* The loop condition of indexBatch: the next entry of the old dict, unless the
\* index is deleted.
indexBatch_Next ==
  /\ ai.pc = "iter"
  /\ IF ai.left = {} \/ ispec[ai.dq].deleted
     THEN ai' = [ai EXCEPT !.pc = "final", !.actx = NoActx, !.added = FALSE]
     ELSE \E rid \in ai.left :
            ai' = [ai EXCEPT !.pc = "item", !.cur = rid, !.left = @ \ {rid},
                             !.actx = NoActx, !.added = FALSE]
  /\ UNCHANGED <<timeVars, gil, aqState, aqLock, pending, dq, ispec, main, kstrRefs, ridsLive,
                 lastSubmit, lastQuery, poolVars, cmdVars, ctxVars, hostVars>>

\* The body of the loop for ai.cur: the host lock, SchemaRules_InitACTX (inited: it
\* returned a context), the unlock, Indexer_Add (added: it returned OK), the release
\* of the key string and of the document.  On a failed init the loop continues with
\* the host lock still held and nothing released.
indexBatch_Item ==
  /\ ai.pc = "item"
  /\ gil = "none"
  /\ \E inited \in BOOLEAN, added \in BOOLEAN :
       IF ~inited
       THEN /\ ~added
            /\ gil' = "ai"
            /\ ai' = [ai EXCEPT !.pc = "iter", !.cur = "none"]
            /\ UNCHANGED <<kstrRefs, ridsLive>>
       ELSE /\ gil' = "none"
            /\ ai' = [ai EXCEPT
                 !.pc = "iter", !.cur = "none",
                 !.actx = [key |-> ai.cur.kstr, iia |-> ai.cur.iia,
                           first |-> ai.cur.first, last |-> ai.cur.last],
                 !.added = added]
            /\ kstrRefs' = [kstrRefs EXCEPT ![ai.cur.kstr] = @ - 1]
            /\ ridsLive' = ridsLive - 1
  /\ UNCHANGED <<timeVars, aqState, aqLock, pending, dq, ispec, main,
                 lastSubmit, lastQuery, poolVars, cmdVars, ctxVars, hostVars>>

\* After the loop: the host lock is taken once more.
indexBatch_FinalLock ==
  /\ ai.pc = "final"
  /\ gil = "none"
  /\ gil' = "ai"
  /\ ai' = [ai EXCEPT !.pc = "commit"]
  /\ UNCHANGED <<timeVars, aqState, aqLock, pending, dq, ispec, main, kstrRefs, ridsLive,
                 lastSubmit, lastQuery, poolVars, cmdVars, ctxVars, hostVars>>

\* What is done with the indexer's documents after the loop: Indexer_Iterate frees
\* them, Indexer_Index commits them.
CommitPath_AlwaysIndex(deleted) == "index"

CommitPath(deleted) == IF deleted THEN "iterate" ELSE "index"

\* Indexer_Iterate if the index is deleted, else Indexer_Index; Indexer_Destroy; the
\* unlock.
indexBatch_Commit ==
  /\ ai.pc = "commit"
  /\ ai' = [ai EXCEPT !.pc = "requeue",
                      !.outcome = CommitPath(ispec[ai.dq].deleted)]
  /\ gil' = "none"
  /\ UNCHANGED <<timeVars, aqState, aqLock, pending, dq, ispec, main, kstrRefs, ridsLive,
                 lastSubmit, lastQuery, poolVars, cmdVars, ctxVars, hostVars>>

\* The reference count of the spec when the drain is over: IndexSpec_Decref unless
\* the queue goes back to the pending list.
RefsAfterDrain_AlwaysDecref(refs, again) == refs - 1

RefsAfterDrain(refs, again) == IF again THEN refs ELSE refs - 1

\* nactive when the drain is over.
nactiveAfterDrain_Kept(n) == n

nactiveAfterDrain(n) == 0

\* The end of indexBatch under AsyncIndexQueue.lock, and the end of the loop body of
\* aiThreadInit: a new empty dict for the next swap.
indexBatch_Requeue ==
  /\ ai.pc = "requeue"
  /\ MutexFree(aqLock)
  /\ LET s == ai.dq
         again == dictSize(dq[s].entries) # 0
     IN /\ dq' = [dq EXCEPT ![s].state = IF again THEN {"PENDING"}
                                         ELSE @ \ {"PROCESSING"},
                            ![s].nactive = nactiveAfterDrain(@)]
        /\ pending' = IF again THEN Append(pending, s) ELSE pending
        /\ ispec' = [ispec EXCEPT ![s].refs = RefsAfterDrain(@, again)]
  /\ ai' = [ai EXCEPT !.pc = "top", !.dq = "none", !.old = {}, !.left = {},
                      !.outcome = "none", !.newdict = TRUE, !.maxAtPick = 0,
                      !.delAtPick = FALSE]
  /\ UNCHANGED <<timeVars, gil, aqState, aqLock, main, kstrRefs, ridsLive,
                 lastSubmit, lastQuery, poolVars, cmdVars, ctxVars, hostVars>>

\* ------------------------------------------------------------ specifications
\* The queue AIQ_Create(ms, indexBatchSize) returns, its thread started, and the
\* specs with no queue yet.
AIQ_Create(ms) ==
  /\ interval = ms
  /\ tv = [tv_sec |-> 0, tv_usec |-> 0]
  /\ ts = [tv_sec |-> 0, tv_nsec |-> 0]
  /\ waitRv = "none"
  /\ aqState = "running"
  /\ aqLock = "none"
  /\ pending = << >>
  /\ dq = [s \in Specs |-> SpecDocQueue_Create]
  /\ ispec = [s \in Specs |-> [queue |-> FALSE, refs |-> 1, deleted |-> FALSE]]
  /\ ai = AiStart
  /\ main = MainIdle
  /\ kstrRefs = [k \in DocKeys |-> 0]
  /\ ridsLive = 0
  /\ lastSubmit = NoSubmit
  /\ lastQuery = NoQuery

InitAiq == AIQ_Create(DefaultInterval)

InitHost ==
  /\ keyExists \in [KeyNames -> BOOLEAN]
  /\ now = 0
  /\ nextHandle = 1
  /\ hInfo = [h \in 1..MaxHandles |-> UnusedHandle]
  /\ ct = [w \in Workers |-> NoCheck]

\* The dispatcher: the state when the module is loaded, on the main thread.
InitPools ==
  /\ gil = "none"
  /\ threadpools_g = << >>
  /\ CONCURRENT_POOL_INDEX = NoPool
  /\ CONCURRENT_POOL_SEARCH = NoPool
  /\ cmdCtx = [c \in 1..MaxCmds |-> NoCmd]
  /\ nDispatched = 0
  /\ wpc = [w \in Workers |-> "idle"]
  /\ wcmd = [w \in Workers |-> 0]
  /\ sctx = [w \in Workers |-> ConcurrentSearchCtx_Init(0)]

InitCmd ==
  /\ InitHost
  /\ InitAiq
  /\ InitPools

HandlerStep(w) ==
  \/ ConcurrentCmdCtx_KeepRedisCtx(w)
  \/ ConcurrentSearchCtx_Lock(w)
  \/ ConcurrentSearchCtx_Unlock(w)
  \/ ConcurrentSearch_CheckTimer(w)
  \/ CheckTimer_Relock(w)
  \/ HandlerReturn(w)

NextCmd ==
  \/ ConcurrentSearch_ThreadPoolStart
  \/ \E p \in PoolIds(threadpools_g), o \in CmdOptions, a \in ArgVectors :
       ConcurrentSearch_HandleRedisCommandEx(p, o, a)
  \/ \E w \in Workers :
       \/ thpool_take(w)
       \/ threadHandleCommand_Call(w)
       \/ HandlerStep(w)
       \/ threadHandleCommand_Unlock(w)
       \/ threadHandleCommand_Finish(w)

SpecCmd == InitCmd /\ [][NextCmd]_vars

\* The registry with callers that pass any pool identifier, one the registry has
\* returned or not, before or after ConcurrentSearch_ThreadPoolStart.
NextPool ==
  \/ ConcurrentSearch_ThreadPoolStart
  \/ \E p \in -1..Len(threadpools_g), o \in CmdOptions, a \in ArgVectors :
       ConcurrentSearch_HandleRedisCommandEx(p, o, a)
  \/ \E w \in Workers :
       \/ thpool_take(w)
       \/ threadHandleCommand_Call(w)
       \/ HandlerReturn(w)
       \/ threadHandleCommand_Unlock(w)
       \/ threadHandleCommand_Finish(w)

SpecPool == InitCmd /\ [][NextPool]_vars

\* The timed wait of the indexing thread, for every interval and clock reading.
InitWait ==
  /\ InitHost
  /\ InitPools
  /\ \E ms \in Intervals : AIQ_Create(ms)

NextWait == aiThreadInit_TimedWait

SpecWait == InitWait /\ [][NextWait]_vars

\* One handler and its ConcurrentSearchCtx: worker s1 has just called the handler of
\* command 1, with or without the host lock.
InitCtx ==
  /\ InitHost
  /\ InitAiq
  /\ \E o \in {{}, {"NO_GIL"}} :
       /\ cmdCtx = [c \in 1..MaxCmds |->
                     IF c = 1 THEN [NoCmd EXCEPT !.state = "running", !.options = o,
                                                 !.pool = 0, !.rctx = "live",
                                                 !.handlerCalls = 1]
                     ELSE NoCmd]
       /\ gil = IF LocksGIL(o) THEN "s1" ELSE "none"
  /\ threadpools_g = <<[numThreads |-> 1, jobs |-> << >>], [numThreads |-> 1, jobs |-> << >>]>>
  /\ CONCURRENT_POOL_SEARCH = 0
  /\ CONCURRENT_POOL_INDEX = 1
  /\ nDispatched = 1
  /\ wpc = [w \in Workers |-> IF w = "s1" THEN "handler" ELSE "idle"]
  /\ wcmd = [w \in Workers |-> IF w = "s1" THEN 1 ELSE 0]
  /\ sctx = [w \in Workers |-> ConcurrentSearchCtx_Init(0)]

NextCtx ==
  \/ \E k \in KeyNames : KeyspaceChange(k)
  \/ \E a \in AddKeyArgs : ConcurrentSearch_AddKey("s1", a)
  \/ ConcurrentSearchCtx_Lock("s1")
  \/ ConcurrentSearchCtx_Unlock("s1")
  \/ ConcurrentSearch_CheckTimer("s1")
  \/ CheckTimer_Relock("s1")
  \/ ConcurrentSearchCtx_Free("s1")

SpecCtx == InitCtx /\ [][NextCtx]_vars

\* The indexing queue, the main thread that submits to it and its worker.
InitAIQ ==
  /\ InitCmd
  /\ keyExists = [k \in KeyNames |-> TRUE]

NextAIQ ==
  \/ \E d \in SubmitArgs : AIQ_Submit(d.spec, d.key, d.iia)
  \/ AIQ_Submit_Signal
  \/ \E s \in Specs : SchemaRules_GetPendingCount(s)
  \/ SchemaRules_GetPendingCount_Read
  \/ \E s \in Specs : IndexSpec_Delete(s)
  \/ AIQ_Destroy
  \/ AIQ_Destroy_Join
  \/ aiThreadInit_Top
  \/ aiThreadInit_Lock
  \/ aiThreadInit_Timeout
  \/ indexBatch_Next
  \/ indexBatch_Item
  \/ indexBatch_FinalLock
  \/ indexBatch_Commit
  \/ indexBatch_Requeue

SpecAIQ == InitAIQ /\ [][NextAIQ]_vars

\* The indexing thread is scheduled, its timed wait expires, and it gets a mutex or
\* the host lock that is released again and again; a command that has begun runs
\* to its end.  Which commands arrive is left open.
aiThread ==
  \/ aiThreadInit_Top
  \/ aiThreadInit_Lock
  \/ aiThreadInit_Timeout
  \/ indexBatch_Next
  \/ indexBatch_Item
  \/ indexBatch_FinalLock
  \/ indexBatch_Commit
  \/ indexBatch_Requeue

FairSpecAIQ ==
  /\ SpecAIQ
  /\ SF_vars(aiThread)
  /\ WF_vars(AIQ_Submit_Signal)
  /\ WF_vars(SchemaRules_GetPendingCount_Read)
  /\ WF_vars(AIQ_Destroy_Join)


\* ------------------------------------------------------------ claims C1 - C5
Dispatched == 1..nDispatched

RECURSIVE SumOver(_, _)
SumOver(f, S) ==
  IF S = {} THEN 0 ELSE LET x == CHOOSE y \in S : TRUE IN f[x] + SumOver(f, S \ {x})

PoolsDrained ==
  /\ \A p \in 1..Len(threadpools_g) : threadpools_g[p].jobs = << >>
  /\ \A w \in Workers : wpc[w] = "idle"

\* C1: every dispatched command has its handler invoked at most once and its client
\* unblocked at most once, never before the handler has returned; a command whose
\* work item has been run has had exactly one invocation and exactly one unblock;
\* once the pools have run all N dispatched items there have been exactly N handler
\* invocations and exactly N unblocks.
C1_HandlerOnceUnblockOnce ==
  /\ \A c \in 1..MaxCmds :
       /\ cmdCtx[c].handlerCalls <= 1
       /\ cmdCtx[c].handlerReturns <= cmdCtx[c].handlerCalls
       /\ cmdCtx[c].unblocks <= cmdCtx[c].handlerReturns
       /\ cmdCtx[c].state = "freed" =>
            cmdCtx[c].handlerCalls = 1 /\ cmdCtx[c].unblocks = 1
       /\ c \notin Dispatched => cmdCtx[c] = NoCmd
  /\ PoolsDrained =>
       /\ SumOver([c \in 1..MaxCmds |-> cmdCtx[c].handlerCalls], 1..MaxCmds) = nDispatched
       /\ SumOver([c \in 1..MaxCmds |-> cmdCtx[c].unblocks], 1..MaxCmds) = nDispatched

\* All the commands of the run have been dispatched and run, one of them keeping
\* its thread-safe context and one not.
C1_Witness ==
  /\ nDispatched = MaxCmds
  /\ PoolsDrained
  /\ \E c \in Dispatched : cmdCtx[c].rctx = "live"
  /\ \E c \in Dispatched : cmdCtx[c].rctx = "freed"

InHandler(w) == wpc[w] \in {"handler", "relock"}

\* What C2 says of every state whatever the handler does: the host lock has one
\* holder, a locked context means its thread holds the host lock, the dispatcher
\* holds the lock from the handler's return to its own release and not at the
\* unblock, and it makes no lock or unlock call under NO_GIL.
C2_Dispatcher ==
  \A w \in Workers :
    /\ sctx[w].isLocked => gil = w
    /\ wpc[w] \in {"idle", "start", "finish"} => gil # w
    /\ wcmd[w] # 0 =>
         LET c == cmdCtx[wcmd[w]] IN
         /\ "NO_GIL" \in c.options => c.gilLocks = 0 /\ c.gilUnlocks = 0
         /\ "NO_GIL" \notin c.options =>
              /\ InHandler(w) \/ wpc[w] = "unlock" => c.gilLocks = 1 /\ c.gilUnlocks = 0
              /\ wpc[w] = "unlock" => gil = w
              /\ wpc[w] = "finish" => c.gilLocks = 1 /\ c.gilUnlocks = 1
         /\ c.unblocks > 0 => c.gilUnlocks = c.gilLocks

\* C2 as stated: a worker whose command was dispatched without NO_GIL holds the
\* host lock for the whole handler invocation.
C2_HoldsThroughHandler ==
  /\ C2_Dispatcher
  /\ \A w \in Workers :
       InHandler(w) /\ "NO_GIL" \notin cmdCtx[wcmd[w]].options => gil = w

\* C2 as amended: the worker holds the host lock through the handler invocation
\* except exactly while the handler has itself given it up by
\* ConcurrentSearchCtx_Unlock or the yield of ConcurrentSearch_CheckTimer.
C2_HoldsExceptWhileYielded ==
  /\ C2_Dispatcher
  /\ \A w \in Workers :
       InHandler(w) /\ "NO_GIL" \notin cmdCtx[wcmd[w]].options =>
         (gil = w <=> ~sctx[w].unlocked)

\* A handler called with the host lock has yielded it in CheckTimer and another
\* worker holds it meanwhile.
C2_Witness ==
  \E w \in Workers, v \in Workers :
    /\ v # w
    /\ wpc[w] = "relock"
    /\ "NO_GIL" \notin cmdCtx[wcmd[w]].options
    /\ gil = v

Owner == "s1"

OwnKeys == sctx[Owner].openKeys

\* Handle h is what RedisModule_OpenKey gave the context for entry kx, and is open.
OpenedFor(kx, h) ==
  /\ hInfo[h].name = kx.keyName
  /\ hInfo[h].flags = kx.keyFlags
  /\ hInfo[h].closes = 0

\* C3: when CheckTimer has returned 1 the reopen callback of every tracked entry
\* has run exactly once since the host lock was released, with the handle newly
\* obtained from RedisModule_OpenKey for the entry's key name and flags, and the
\* context is locked with its clock reset; no callback runs before the lock is
\* taken again; when it has returned 0 no callback has run and the host lock was
\* not released.
C3_CheckTimerReopens ==
  LET c == ct[Owner] IN
  /\ c.ret = 1 =>
       /\ c.released
       /\ sctx[Owner].isLocked /\ gil = Owner
       /\ sctx[Owner].lastTime = now /\ sctx[Owner].ticker = 0
       /\ \A i \in 1..Len(OwnKeys) :
            LET kx == OwnKeys[i] IN
            /\ kx.cbCalls = 1
            /\ kx.cbKey = kx.key
            /\ kx.key = NULL => ~keyExists[kx.keyName] /\ kx.keyFlags = "READ"
            /\ kx.key # NULL =>
                 /\ kx.key >= c.firstNew
                 /\ hInfo[kx.key].origin = "ctx"
                 /\ OpenedFor(kx, kx.key)
  /\ wpc[Owner] = "relock" =>
       /\ c.released /\ c.ret = -1
       /\ \A i \in 1..Len(OwnKeys) : OwnKeys[i].cbCalls = 0
  /\ c.ret = 0 =>
       /\ ~c.released
       /\ gil = Owner
       /\ \A i \in 1..Len(OwnKeys) : OwnKeys[i].cbCalls = 0

\* CheckTimer has yielded and returned 1 with two tracked entries, one of them
\* reopened to a handle and one to NULL.
C3_Witness ==
  /\ ct[Owner].ret = 1
  /\ Len(OwnKeys) = 2
  /\ \E i \in 1..2 : OwnKeys[i].key # NULL
  /\ \E i \in 1..2 : OwnKeys[i].key = NULL

\* C4, second half: while the context is locked each tracked handle is an open
\* handle for the entry's own key name (or NULL when the key is missing).
C4_LockedNameConsistent ==
  (sctx[Owner].isLocked /\ ~sctx[Owner].freed) =>
    \A i \in 1..Len(OwnKeys) :
      OwnKeys[i].key # NULL => OpenedFor(OwnKeys[i], OwnKeys[i].key)

\* C4 as stated: between Unlock and the next Lock every tracked handle not marked
\* SharedKey is NULL.
C4_UnlockedHandlesNull ==
  /\ C4_LockedNameConsistent
  /\ sctx[Owner].unlocked =>
       \A i \in 1..Len(OwnKeys) :
         "SharedKey" \notin OwnKeys[i].opts => OwnKeys[i].key = NULL

\* C4 as amended: between Unlock and the next Lock every tracked handle not marked
\* SharedKey is NULL or a handle the context has closed exactly once; the field
\* keeps the stale handle.
C4_UnlockedHandlesClosed ==
  /\ C4_LockedNameConsistent
  /\ sctx[Owner].unlocked =>
       \A i \in 1..Len(OwnKeys) :
         "SharedKey" \notin OwnKeys[i].opts =>
           OwnKeys[i].key = NULL \/ hInfo[OwnKeys[i].key].closes = 1

\* The context is unlocked and still holds a closed, non-NULL handle.
C4_Witness ==
  /\ sctx[Owner].unlocked
  /\ \E i \in 1..Len(OwnKeys) :
       /\ "SharedKey" \notin OwnKeys[i].opts
       /\ OwnKeys[i].key # NULL
       /\ hInfo[OwnKeys[i].key].closes = 1

\* C5: a handle stored with SharedKey set is never closed by the context; an entry
\* carries the SharedKey flag only while it holds that borrowed handle, and an
\* entry Lock has reopened has the flag cleared; the handles the context closes are
\* handed over or opened by it, and each is closed at most once.
C5_SharedHandleNeverClosed ==
  /\ \A h \in 1..MaxHandles :
       /\ hInfo[h].origin = "borrowed" => hInfo[h].closes = 0
       /\ hInfo[h].closes <= 1
       /\ hInfo[h].closes = 1 => hInfo[h].origin \in {"caller", "ctx"}
  /\ \A i \in 1..Len(OwnKeys) :
       "SharedKey" \in OwnKeys[i].opts =>
         OwnKeys[i].key = NULL \/ hInfo[OwnKeys[i].key].origin = "borrowed"
  /\ \A i \in 1..Len(OwnKeys) :
       OwnKeys[i].cbCalls >= 1 => "SharedKey" \notin OwnKeys[i].opts

\* A borrowed handle was tracked, the context has since unlocked, locked and been
\* torn down: the borrowed handle is still open and the handle the context opened
\* in its place is closed.
C5_Witness ==
  /\ sctx[Owner].freed
  /\ \E h \in 1..MaxHandles, g \in 1..MaxHandles :
       /\ hInfo[h].origin = "borrowed" /\ hInfo[h].closes = 0
       /\ hInfo[g].origin = "ctx" /\ hInfo[g].closes = 1
       /\ hInfo[g].name = hInfo[h].name

\* ------------------------------------------------------------ claims C6 - C10
PendingCount(s) == dq[s].nactive + dictSize(dq[s].entries)

\* C6: submitting a key that is already in the spec's live dict leaves one entry for
\* the key, does not change the size of the dict, keeps no reference to the key
\* string and no record; a submission of a key that is not there adds one entry,
\* one reference and one record.  So several submissions of one key before the
\* swap add one entry and one reference in all.
C6_DuplicateCollapses ==
  /\ \A s \in Specs : \A r1, r2 \in dq[s].entries : r1.kstr = r2.kstr => r1 = r2
  /\ lastSubmit.spec # "none" =>
       IF lastSubmit.dup
       THEN lastSubmit.dSize = 0 /\ lastSubmit.dRefs = 0 /\ lastSubmit.dRids = 0
       ELSE lastSubmit.dSize = 1 /\ lastSubmit.dRefs = 1 /\ lastSubmit.dRids = 1

\* The key k1 was submitted twice to S1 and nothing else was: one entry, one reference.
C6_Witness ==
  /\ lastSubmit.spec = "S1" /\ lastSubmit.dup
  /\ main.n = 2
  /\ dictKeys(dq["S1"].entries) = {"k1"}
  /\ dictSize(dq["S1"].entries) = 1
  /\ kstrRefs["k1"] = 1 /\ ridsLive = 1

\* C7: the attributes SchemaRules_InitACTX is given for a key are those of the last
\* submission of the key to the batch.
C7_LastAttributesWin ==
  ai.actx.key # "none" => ai.actx.iia = ai.actx.last

\* What the code does: the attributes of the first submission are used.
C7_FirstAttributesWin ==
  ai.actx.key # "none" => ai.actx.iia = ai.actx.first

\* C8: while the queue is not cancelled and the index not deleted, a spec with
\* documents queued or in a batch eventually has a pending count of 0.
C8_EventuallyDrained ==
  \A s \in Specs :
    (PendingCount(s) > 0) ~>
      (PendingCount(s) = 0 \/ aqState = "cancelled" \/ ispec[s].deleted)

\* C8, the signal: a submission that brings the live dict to indexBatchSize or
\* more while the spec is not PROCESSING signals the condition, and no other does.
C8_SignalsAtBatchSize ==
  (lastSubmit.spec # "none" /\ main.pc # "signal") =>
    (lastSubmit.signalled <=> lastSubmit.owed)

\* C9: the count is -1 for a spec with no queue; otherwise it is nactive + size of
\* the live dict as they were when the two mutexes were taken, and they do not
\* change while the mutexes are held.  nactive is the size the batch had when it
\* was swapped out while the queue is PROCESSING, and 0 otherwise.
C9_PendingCount ==
  /\ \A s \in Specs :
       IF "PROCESSING" \in dq[s].state
       THEN ai.dq = s /\ dq[s].nactive = dictSize(ai.old)
       ELSE dq[s].nactive = 0
  /\ (lastQuery.spec # "none" /\ ~lastQuery.hasQueue) => lastQuery.ret = -1
  /\ main.pc = "query" =>
       /\ lastQuery.hasQueue
       /\ lastQuery.snap = PendingCount(main.spec)
  /\ (lastQuery.hasQueue /\ main.pc # "query") =>
       /\ lastQuery.ret = lastQuery.snap
       /\ lastQuery.ret >= 0

\* A query answered 2 while a batch of one document was being drained and one more
\* document had been queued behind it.
C9_Witness ==
  /\ lastQuery.hasQueue /\ main.pc = "idle" /\ lastQuery.ret = 2
  /\ "PROCESSING" \in dq[lastQuery.spec].state
  /\ dq[lastQuery.spec].nactive = 1
  /\ dictSize(dq[lastQuery.spec].entries) = 1

\* C10: the queue the indexing thread takes had the largest live dict of the
\* pending list.
C10_PicksDeepest ==
  ai.dq # "none" => dq[ai.dq].nactive >= ai.maxAtPick

\* ------------------------------------------------------------ claims C11 - C20
\* C11: the step that ends a batch holds the host lock when it reads the deleted flag
\* of the spec, and it commits the batch (Indexer_Index) only if the flag is clear;
\* if the spec has been deleted, before or during the drain, it takes the
\* iterate-and-free path and commits nothing.
C11_DeletedBatchNotCommitted ==
  [][(ai.pc = "commit" /\ ai'.pc # "commit") =>
       /\ gil = "ai"
       /\ ispec[ai.dq].deleted => ai'.outcome = "iterate"
       /\ ai'.outcome = "index" => ~ispec[ai.dq].deleted]_vars

\* A spec that was not deleted when its batch was swapped out, was deleted during the
\* drain, and whose batch went to the iterate path.
C11_Witness ==
  /\ ai.pc = "requeue" /\ ai.outcome = "iterate"
  /\ ~ai.delAtPick /\ ispec[ai.dq].deleted
  /\ dq[ai.dq].nactive >= 1

\* C12: once AIQ_Destroy has set CANCELLED and signalled, the indexing thread
\* eventually leaves its loop and AIQ_Destroy returns.
C12_DestroyTerminates ==
  (aqState = "cancelled") ~> (ai.pc = "done" /\ main.pc = "destroyed")

\* C13: when the queue has been destroyed and its thread has exited, every record
\* AIQ_Submit allocated has been freed and every reference it took on a key string
\* has been given back.
C13_NothingLeaked ==
  (main.pc = "destroyed" /\ ai.pc = "done") =>
    (ridsLive = 0 /\ \A k \in DocKeys : kstrRefs[k] = 0)

\* C14: a dispatch that names a pool identifier the registry has not returned
\* creates no work item: every work item is created for an identifier in range, and
\* a call with another identifier leaves the queues of all pools as they were.
C14_InvalidPoolRejected ==
  [][\A c \in 1..MaxCmds :
       (cmdCtx[c].state = "none" /\ cmdCtx'[c].state # "none") =>
         cmdCtx'[c].pool \in PoolIds(threadpools_g)]_vars

\* C14, the identifiers: ConcurrentSearch_ThreadPoolStart, called any number of
\* times, leaves two pools, 0 for search and 1 for indexing.
C14_TwoPools ==
  IF CONCURRENT_POOL_SEARCH = NoPool
  THEN threadpools_g = << >> /\ CONCURRENT_POOL_INDEX = NoPool
  ELSE Len(threadpools_g) = 2 /\ CONCURRENT_POOL_SEARCH = 0 /\ CONCURRENT_POOL_INDEX = 1

InPending(s) == {i \in 1..Len(pending) : pending[i] = s}

\* C15: while the queue exists, a spec queue is in the pending list exactly if
\* PENDING is in its state, it is there at most once and never while PROCESSING
\* is in its state; and only the step of the indexing thread that takes a queue
\* removes an entry from the list.
C15_PendingListMembership ==
  /\ [](main.pc # "destroyed" =>
         \A s \in Specs :
           /\ (InPending(s) # {}) <=> ("PENDING" \in dq[s].state)
           /\ Cardinality(InPending(s)) <= 1
           /\ "PROCESSING" \in dq[s].state => InPending(s) = {})
  /\ [][(main'.pc # "destroyed" /\
         \E s \in Specs : Cardinality(InPending(s)') < Cardinality(InPending(s))) =>
          (ai.pc = "lock" /\ ai'.pc = "iter")]_vars

\* S1 is being drained and has a document queued behind the batch, so it is not
\* in the list, while S2 waits in it.
C15_Witness ==
  /\ "PROCESSING" \in dq["S1"].state /\ dq["S1"].entries # {}
  /\ pending = <<"S2">> /\ dq["S2"].state = {"PENDING"}
  /\ main.pc = "idle"

\* C16: between the entries of a batch and after the last one the indexing thread
\* does not hold the host lock, whether SchemaRules_InitACTX succeeded or failed
\* for the entry before; so it never asks for the host lock while holding it.
C16_InitFailureReleasesLock ==
  ai.pc \in {"iter", "item", "final"} => gil # "ai"

\* The indexing thread is at a call that takes AsyncIndexQueue.lock ("lock",
\* "requeue") or the host lock ("item", "final").
AiAcquiring == ai.pc \in {"lock", "requeue", "item", "final"}

\* C17: no deadlock among the queue mutex, the per-spec mutex and the host lock:
\* whenever the indexing thread asks for one of them it eventually gets it, and a
\* command that holds the host lock or the mutexes eventually gives them back.
C17_NoDeadlock ==
  /\ AiAcquiring ~> ~AiAcquiring
  /\ (gil # "none") ~> (gil = "none")
  /\ (aqLock # "none") ~> (aqLock = "none")

\* C17, the order: the indexing thread holds no mutex of the queue when it takes
\* the host lock, and the query holds AsyncIndexQueue.lock whenever it holds the
\* lock of a spec queue.
C17_LockOrder ==
  /\ aqLock # "ai"
  /\ \A s \in Specs : dq[s].lock # "none" => (dq[s].lock = "main" /\ aqLock = "main")

\* C18: the indexing thread swaps a queue out only when it comes from its timed
\* wait: after the interval has expired, or after a signal if the batch it takes
\* has at least indexBatchSize documents.
C18_DrainsOnlyAfterWait ==
  [][(ai.pc = "lock" /\ ai'.pc = "iter") =>
       \/ ai.wake = "timeout"
       \/ ai.wake = "signal" /\ dq'[ai'.dq].nactive >= indexBatchSize]_vars

\* C19: the deadline passed to the timed wait has a nanosecond field below 10^9,
\* and the wait does not return EINVAL.
C19_DeadlineValid ==
  /\ ts.tv_nsec >= 0 /\ ts.tv_nsec < 1000000000
  /\ waitRv # "EINVAL"

\* C20: the queue holds one reference on a spec exactly while PENDING or
\* PROCESSING is in the state of its spec queue, and none while the state is empty
\* (the count is then what it was before the first submit, 1); the spec the
\* indexing thread works on is PROCESSING, so the reference is held.
C20_SpecReferencesBalanced ==
  /\ \A s \in Specs :
       ispec[s].refs = 1 + (IF dq[s].state \cap {"PENDING", "PROCESSING"} # {} THEN 1 ELSE 0)
  /\ ai.dq # "none" =>
       ("PROCESSING" \in dq[ai.dq].state /\ ispec[ai.dq].refs = 2)

\* S1 has been submitted to and drained, its queue is idle and its count is back
\* to 1, while S2 is being drained with the reference held.
C20_Witness ==
  /\ ispec["S1"].queue /\ dq["S1"].state = {} /\ ispec["S1"].refs = 1
  /\ ai.dq = "S2" /\ ispec["S2"].refs = 2

=============================================================================
